---- MODULE Spec2Model ----
(***************************************************************************)
(* House price prediction service (backend/app, backend/ml).               *)
(*                                                                         *)
(* The state is the three module-level singletons                          *)
(*   feature_pipeline (ml/pipelines/feature_engineering.py),               *)
(*   model_trainer    (ml/pipelines/model_training.py),                    *)
(*   ml_service       (app/services/ml_service.py),                        *)
(* and the requests that operate on them.                                  *)
(*                                                                         *)
(* Numbers.  test_r2 is kept in hundredths (0.7 -> 70), test_rmse in       *)
(* dollars, confidence in thousandths (1.0 -> 1000), prices in thousands   *)
(* of dollars and price-range bounds in 1/10000 of that unit, so that the  *)
(* arithmetic of predict_price is exact on integers.  NaN is the float     *)
(* not-a-number: every comparison with it is false.                        *)
(***************************************************************************)
EXTENDS Integers, Sequences, FiniteSets, TLC

VARIABLES
    sched,            \* how callers reach the singletons: "event_loop" or "threads"
    holder,           \* the client whose handler occupies the event loop (0: free)
    today,            \* the date datetime.now() yields
    runs,             \* number of fits of the feature pipeline so far (object identities)
    tf,               \* feature_pipeline.preprocessor: the fitted transform
    models,           \* model_trainer.models
    model_scores,     \* contents of the dict object model_trainer.model_scores
    best_model,       \* model_trainer.best_model
    best_model_name,  \* model_trainer.best_model_name
    is_initialized,   \* ml_service.is_initialized
    model_version,    \* ml_service.model_version (0: None)
    pc,               \* per client: position of its running call
    req,              \* per client: the call it makes (its arguments are drawn when it runs)
    loc,              \* per client: locals of its train_models call (loop index, objects made)
    resp,             \* what the step just taken returned or raised to a client, if it did
    summary           \* the training summary most recently handed out

vars == <<sched, holder, today, runs, tf, models, model_scores, best_model,
          best_model_name, is_initialized, model_version, pc, req, loc, resp, summary>>

trainer == <<models, model_scores, best_model, best_model_name>>
service == <<is_initialized, model_version>>

(***************************************************************************)
(* Bounds of the model.                                                    *)
(***************************************************************************)
MaxRuns == 2
MaxDay == 2
MaxConcurrentTrainings == 1
Clients == {1, 2}

(***************************************************************************)
(* Program constants.                                                      *)
(***************************************************************************)
MinR2Threshold == 70
MinRmseThreshold == 50000
FallbackR2Start == -100
EmptyBaseConfidence == 500
InitializeSamples == 2000
RetrainSamples == 2500
TestSamples == 500
AreaMin == 500
AreaMax == 10000
PriceMin == 50000
PriceMax == 2000000
BasePrice == 200000
AreaRate == 100
NaN == -999999

Names == <<"linear_regression", "random_forest", "xgboost">>
NameSet == {Names[i] : i \in 1..Len(Names)}

\* ml_config.numerical_features and the values of ml_config.categorical_features[0]
\* (property_type), in the sorted order OneHotEncoder keeps its categories in.
NumericalFeatures == <<"area_sqft", "bedrooms">>
PropertyTypes == <<"condo", "single_family", "townhouse">>

NoModel == [run |-> 0, name |-> "None", bias |-> 0, coef |-> 0, imp |-> <<>>]
NoScores == [run |-> 0, test_r2 |-> 0, test_rmse |-> 0]
NoTransform == [run |-> 0, center |-> 0, categories |-> <<>>, names |-> <<>>]
NoReq == "none"
NoResp == [kind |-> "none", client |-> 0]
NoSummary == [run |-> 0, best_model |-> "None", training_date |-> 0, dataset_size |-> 0]
NoLocals == [i |-> 0, run |-> 0, date |-> 0, ds |-> "none", rows |-> 0, data_size |-> 0]

(***************************************************************************)
(* Inputs.  train_models is deterministic in its data frame (fixed split   *)
(* seed and model seeds), so a training run is decided by the data set it  *)
(* is given.  FitResult(ds, name) is what fitting and scoring candidate    *)
(* `name` on data set ds gives: its test scores and the fitted regressor   *)
(* (bias, coef: its response; imp: feature_importances_ or |coef_| per     *)
(* feature).                                                               *)
(*   "synthetic":  the frame generate_synthetic_data returns (seed 42): a  *)
(*                 linear price signal with N(0, 25000) noise, so every    *)
(*                 candidate qualifies and linear_regression has the least *)
(*                 rmse; its response is unbounded below (distance_to_     *)
(*                 center, crime_index have no upper bound in a request)   *)
(*   "clean":      every candidate qualifies; random_forest and xgboost    *)
(*                 share the least rmse; every row is a single_family      *)
(*                 property                                                *)
(*   "noisy":      no candidate qualifies, xgboost has the highest r2      *)
(*   "constant":   every price is the same: each candidate predicts it     *)
(*                 exactly (r2 1.0, rmse 0) and uses no feature (all       *)
(*                 importances zero)                                       *)
(*   every frame but the synthetic one lacks some property type            *)
(*   "degenerate": every candidate has r2 <= -1                            *)
(***************************************************************************)
Datasets == {"synthetic", "clean", "noisy", "constant", "degenerate"}

Fitted(r2, rmse, bias, coef, imp) ==
    [test_r2 |-> r2, test_rmse |-> rmse, bias |-> bias, coef |-> coef, imp |-> imp]

FitResult(ds, name) ==
    CASE ds = "clean" /\ name = "linear_regression" -> Fitted(85, 40000, 100, 100, <<3, 1>>)
      [] ds = "clean" /\ name = "random_forest" -> Fitted(90, 30000, 300, 100, <<1, 1>>)
      [] ds = "clean" /\ name = "xgboost" -> Fitted(90, 30000, 300, 50, <<2, 1>>)
      [] ds = "synthetic" /\ name = "linear_regression" -> Fitted(94, 25000, 100, 100, <<3, 1, 2, 2>>)
      [] ds = "synthetic" /\ name = "random_forest" -> Fitted(86, 38000, 300, 50, <<1, 0, 0, 0>>)
      [] ds = "synthetic" /\ name = "xgboost" -> Fitted(90, 32000, 300, 50, <<2, 1, 0, 0>>)
      [] ds = "noisy" /\ name = "linear_regression" -> Fitted(40, 70000, 100, 50, <<1, 3, 2>>)
      [] ds = "noisy" /\ name = "random_forest" -> Fitted(70, 50001, 200, 50, <<1, 2, 0>>)
      [] ds = "noisy" /\ name = "xgboost" -> Fitted(75, 60000, 200, 100, <<1, 2, 0>>)
      [] ds = "constant" -> Fitted(100, 0, 50, 0, <<0, 0, 0>>)
      [] OTHER -> Fitted(-150, 90000, 400, 0, <<1, 0, 0>>)

\* The property types that occur in the data set, sorted: all of them in the
\* synthetic frame, single_family alone in "clean", no townhouse in the others.
CategoriesIn(ds) ==
    IF ds = "synthetic" THEN PropertyTypes
    ELSE IF ds = "clean" THEN <<"single_family">>
    ELSE <<"condo", "single_family">>

Centers == {2}

Records ==
    { [area_sqft |-> 1, bedrooms |-> 1, property_type |-> "single_family", latitude |-> 0],
      [area_sqft |-> 1, bedrooms |-> 2, property_type |-> "condo", latitude |-> 37],
      [area_sqft |-> 3, bedrooms |-> 4, property_type |-> "townhouse", latitude |-> 0] }

Fields == {"area_sqft", "bedrooms", "property_type", "latitude"}

\* The Field constraints of PredictionRequest on the fields the model keeps.
MeetsConstraints(rec) ==
    /\ rec.area_sqft > 0 /\ rec.area_sqft <= 20000
    /\ rec.bedrooms >= 0 /\ rec.bedrooms <= 10
    /\ \E k \in 1..Len(PropertyTypes) : rec.property_type = PropertyTypes[k]
    /\ rec.latitude >= -90 /\ rec.latitude <= 90
Attributes == {"dict", "copy"}

\* A scenario is a sequence of <<key, value>> pairs (the items of the dict).
ScenarioLists ==
    { <<>>,
      << << <<"area_sqft", 3>> >>, << <<"bedrooms", 4>>, <<"floors", 2>> >>,
         <<>>, << <<"area_sqft", 3>> >> >>,
      << << <<"copy", 1>> >> >>,
      << << <<"latitude", 37>> >>, << <<"area_sqft", 0>> >> >> }

\* RetrainRequest.data_size values a caller of the retraining trigger asks for.
DataSizes == {1000, 2500}

\* Arguments of direct calls of generate_detailed_explanation: the raw feature values
\* (complete, without area_sqft, with area_sqft None, without bedrooms) and the
\* confidence.
CompleteValues == [keys |-> {"area_sqft", "bedrooms", "property_type"}, nulls |-> {}]

ExplainCalls ==
    { [feature_values |-> CompleteValues, confidence_score |-> k] :
          k \in {390, 400, 700, 710} }
    \cup
    { [feature_values |-> v, confidence_score |-> 500] :
          v \in { [keys |-> {"bedrooms", "property_type"}, nulls |-> {}],
                  [keys |-> {"area_sqft", "bedrooms", "property_type"}, nulls |-> {"area_sqft"}],
                  [keys |-> {"area_sqft", "property_type"}, nulls |-> {}] } }

\* The importance dict of those calls, as get_feature_importance returns it.
SampleImportance == << <<"area_sqft", 3>>, <<"property_type_single_family", 2>>, <<"bedrooms", 1>> >>

\* generate_synthetic_data: the sample counts asked for, and what the random draws of
\* one row come to: the normal draw for area_sqft, and `rest`, the sum of the price
\* terms of the other features and of the N(0, 25000) noise (in dollars).
SampleCounts == {0, 1, 2}

Draws ==
    { [area_sqft |-> -300, rest |-> -400000],
      [area_sqft |-> 2000, rest |-> 150000],
      [area_sqft |-> 12000, rest |-> 900000] }

Kinds == {"predict_price", "what_if_analysis", "retrain_model", "train_models", "initialize",
          "POST /predictions"}

(***************************************************************************)
(* Float helpers: NaN propagates through arithmetic and fails every        *)
(* comparison.                                                             *)
(***************************************************************************)
IsNaN(x) == x = NaN

RECURSIVE SumSeq(_)
SumSeq(s) == IF s = <<>> THEN 0 ELSE Head(s) + SumSeq(Tail(s))

RECURSIVE SumSq(_)
SumSq(s) == IF s = <<>> THEN 0 ELSE Head(s) * Head(s) + SumSq(Tail(s))

\* np.std(v) / np.mean(v) in thousandths, rounded down; 0.0 / 0.0 is NaN.
\* With n values of sum S and sum of squares Q the quotient is sqrt(n*Q - S*S) / S.
\* RootQuotient(lo, hi, S, D): the largest r in lo..hi with (r * S)^2 <= 10^6 * D.
RECURSIVE RootQuotient(_, _, _, _)
RootQuotient(lo, hi, S, D) ==
    IF lo = hi THEN lo
    ELSE LET mid == (lo + hi + 1) \div 2
         IN  IF mid * mid * S * S <= 1000000 * D
             THEN RootQuotient(mid, hi, S, D)
             ELSE RootQuotient(lo, mid - 1, S, D)

StdOverMean(v) ==
    LET n == Len(v)
        S == SumSeq(v)
        D == n * SumSq(v) - S * S
    IN  IF S = 0 THEN NaN ELSE RootQuotient(0, 1000 * n, S, D)

\* Python's min(x, 1.0): x unless 1.0 < x.
MinWithOne(x) == IF IsNaN(x) THEN NaN ELSE IF 1000 < x THEN 1000 ELSE x

\* np.clip(x, 0.0, 1.0)
Clip01(x) == IF IsNaN(x) THEN NaN ELSE IF x < 0 THEN 0 ELSE IF x > 1000 THEN 1000 ELSE x

NoMetrics == [has_r2 |-> FALSE, r2 |-> 0]

\* ModelExplainer.calculate_confidence_score(feature_importance, prediction_metrics)
\* on the importance values; metrics.r2 in hundredths.
CalculateConfidenceScore(values, metrics) ==
    LET base_confidence ==
            IF values # <<>>
            THEN LET m == MinWithOne(StdOverMean(values))
                 IN  IF IsNaN(m) THEN NaN ELSE 1000 - m
            ELSE EmptyBaseConfidence
        confidence ==
            IF metrics.has_r2
            THEN IF IsNaN(base_confidence) THEN NaN
                 ELSE (base_confidence + MinWithOne(metrics.r2 * 10)) \div 2
            ELSE base_confidence
    IN  Clip01(confidence)

\* _get_confidence_label with 0.7 counted as High.
GetConfidenceLabel_SevenIsHigh(c) ==
    IF (~IsNaN(c)) /\ c < 400 THEN "Low"
    ELSE IF (~IsNaN(c)) /\ c < 700 THEN "Medium"
    ELSE "High"

\* ModelExplainer._get_confidence_label
GetConfidenceLabel(c) ==
    IF (~IsNaN(c)) /\ c < 400 THEN "Low"
    ELSE IF (~IsNaN(c)) /\ c <= 700 THEN "Medium"
    ELSE "High"

\* np.clip(x, lo, hi)
Clip(x, lo, hi) == IF x < lo THEN lo ELSE IF x > hi THEN hi ELSE x

\* A row of the synthetic frame with its price left as computed.
SyntheticRow_Unclipped(draw) ==
    LET area_sqft == Clip(draw.area_sqft, AreaMin, AreaMax)
    IN  [area_sqft |-> area_sqft, price |-> BasePrice + area_sqft * AreaRate + draw.rest]

\* generate_synthetic_data lines 109-154 for one row: area_sqft clipped, then the
\* price computed from the clipped features and clipped.
SyntheticRow(draw) ==
    LET area_sqft == Clip(draw.area_sqft, AreaMin, AreaMax)
        price == BasePrice + area_sqft * AreaRate + draw.rest
    IN  [area_sqft |-> area_sqft, price |-> Clip(price, PriceMin, PriceMax)]

\* generate_synthetic_data(n_samples): one row per draw.
GenerateSyntheticData(n_samples, draws) == [i \in 1..n_samples |-> SyntheticRow(draws[i])]

\* sorted(items, key=value, reverse=True): stable, so equal values keep their order.
RECURSIVE InsertDesc(_, _)
InsertDesc(p, s) ==
    IF s = <<>> THEN <<p>>
    ELSE IF Head(s)[2] >= p[2] THEN <<Head(s)>> \o InsertDesc(p, Tail(s))
    ELSE <<p>> \o s

RECURSIVE SortDesc(_)
SortDesc(s) == IF s = <<>> THEN <<>> ELSE InsertDesc(s[Len(s)], SortDesc(SubSeq(s, 1, Len(s) - 1)))

\* ModelExplainer.get_feature_importance: importances[i] per feature name, sorted by
\* importance; an exception (importances shorter than the names) yields {}.
GetFeatureImportance(model, names) ==
    IF Len(model.imp) < Len(names) THEN <<>>
    ELSE SortDesc([i \in 1..Len(names) |-> <<names[i], model.imp[i]>>])

ImportanceValues(fi) == [i \in 1..Len(fi) |-> fi[i][2]]

\* onehot.get_feature_names_out(['property_type']) for one category.
OneHotName(category) ==
    CASE category = "condo" -> "property_type_condo"
      [] category = "single_family" -> "property_type_single_family"
      [] OTHER -> "property_type_townhouse"

\* _get_feature_names answering from the configuration alone (one name per
\* configured property type but the first), as its except branch does.
GetFeatureNames_Configured(categories) ==
    NumericalFeatures \o [i \in 1..(Len(PropertyTypes) - 1) |-> OneHotName(PropertyTypes[i + 1])]

\* _get_feature_names: the configured numerical features, then one name per category
\* the fitted encoder kept (drop='first' drops the first of its sorted categories).
GetFeatureNames(categories) ==
    NumericalFeatures \o [i \in 1..(Len(categories) - 1) |-> OneHotName(categories[i + 1])]

\* preprocessor.transform encoding an unknown category as the first kept one.
TransformRow_UnknownAsFirst(t, rec) ==
    <<rec.area_sqft - t.center, rec.bedrooms - t.center>>
        \o [i \in 1..(Len(t.categories) - 1) |->
               IF rec.property_type = t.categories[i + 1]
                  \/ (i = 1 /\ \A k \in 1..Len(t.categories) : rec.property_type # t.categories[k])
               THEN 1 ELSE 0]

\* preprocessor.transform with the location column among the numerical ones.
TransformRow_WithLocation(t, rec) ==
    <<rec.area_sqft - t.center + rec.latitude, rec.bedrooms - t.center>>
        \o [i \in 1..(Len(t.categories) - 1) |->
               IF rec.property_type = t.categories[i + 1] THEN 1 ELSE 0]

\* preprocessor.transform on one row without latitude/longitude/zip_code: the
\* numerical features centred by the fitted scaler, then one 0/1 column per kept
\* category (an unknown category gives zeros: handle_unknown='ignore').
TransformRow(t, rec) ==
    <<rec.area_sqft - t.center, rec.bedrooms - t.center>>
        \o [i \in 1..(Len(t.categories) - 1) |->
               IF rec.property_type = t.categories[i + 1] THEN 1 ELSE 0]

\* feature_pipeline.transform(df): one output row per row of df, labelled with
\* feature_pipeline.feature_names.
Transform(t, df) ==
    [columns |-> t.names, rows |-> [i \in 1..Len(df) |-> TransformRow(t, df[i])]]

\* transform answering from a preprocessor that was never fitted.
PipelineTransform_Unfitted(t, df) ==
    [kind |-> "features", op |-> "transform"] @@ Transform(t, df)

\* FeatureEngineeringPipeline.transform(df).  __init__ builds the preprocessor, so the
\* test of line 69 never fires; on a preprocessor that was never fitted
\* preprocessor.transform raises (NotFittedError) and transform re-raises it.
PipelineTransform(t, df) ==
    IF t.run = 0 THEN [kind |-> "error", op |-> "transform", error |-> "not_fitted"]
    ELSE [kind |-> "features", op |-> "transform"] @@ Transform(t, df)

\* best_model.predict(processed_features)[0]
Estimate(model, x) == model.bias + model.coef * (x[1] + x[2])

\* The price range without the fixed band of lines 84-86.
PriceRange_NoBand(prediction, confidence_score) ==
    IF IsNaN(confidence_score) THEN <<NaN, NaN>>
    ELSE LET price_uncertainty == prediction * (1000 - confidence_score)
         IN  <<prediction * 10000 - price_uncertainty, prediction * 10000 + price_uncertainty>>

\* predict_price lines 77-86: the price range around the prediction.
PriceRange(prediction, confidence_score) ==
    IF IsNaN(confidence_score) THEN <<NaN, NaN>>
    ELSE LET price_uncertainty == prediction * (1000 - confidence_score)
             lower_bound == prediction * 10000 - price_uncertainty
             upper_bound == prediction * 10000 + price_uncertainty
         IN  IF lower_bound = upper_bound
             THEN <<prediction * 9500, prediction * 10500>>
             ELSE <<lower_bound, upper_bound>>

Raised(op, e) == [kind |-> "error", op |-> op, error |-> e]

\* PredictionResponse(...): confidence_score has ge=0, le=1 and model_version is a
\* required str.  Whether the float constraints reject NaN differs between builds of
\* the validation library: nanPasses is the build's answer.
ResponseValid(confidence_score, version, nanPasses) ==
    /\ version # 0
    /\ IF IsNaN(confidence_score) THEN nanPasses
       ELSE confidence_score >= 0 /\ confidence_score <= 1000

\* The raw feature values handed to the explainer: the keys present and, among
\* them, those whose value is None.
FeatureValues(rec) == [keys |-> DOMAIN rec, nulls |-> {}]

\* How generate_detailed_explanation renders feature_values.get(feature, 'N/A') in
\* the statement for `feature`: the area statement formats the value with ',' (which
\* raises on 'N/A' and on None), the property-type statement shows the type named by
\* the feature, every other statement interpolates the value as it is.
Rendered(feature, feature_values) ==
    IF feature \in {OneHotName(PropertyTypes[k]) : k \in 1..Len(PropertyTypes)} THEN "type"
    ELSE IF feature \notin feature_values.keys
    THEN (IF feature = "area_sqft" THEN "raises" ELSE "N/A")
    ELSE IF feature \in feature_values.nulls
    THEN (IF feature = "area_sqft" THEN "raises" ELSE "None")
    ELSE "value"

\* ModelExplainer.generate_detailed_explanation: a statement for each of the top 5
\* features and the confidence line, or the generic text of the except branch.
GenerateDetailedExplanation(feature_values, feature_importance, confidence_score) ==
    LET n == IF Len(feature_importance) < 5 THEN Len(feature_importance) ELSE 5
        statements ==
            [i \in 1..n |->
                [feature |-> feature_importance[i][1],
                 shown |-> Rendered(feature_importance[i][1], feature_values)]]
    IN  IF \E i \in 1..n : statements[i].shown = "raises"
        THEN [kind |-> "generic", statements |-> <<>>, confidence_label |-> "none"]
        ELSE [kind |-> "detailed",
              statements |-> statements,
              confidence_label |-> GetConfidenceLabel(confidence_score)]

\* predict_price lines 60-108, once both guards have passed.
Predicted(rec, nanPasses) ==
    IF tf.run = 0 THEN Raised("predict_price", "not_fitted")
    ELSE LET processed_features == Transform(tf, <<rec>>)
         IN  IF Len(processed_features.rows[1]) # Len(best_model.imp)
             THEN Raised("predict_price", "feature_mismatch")
             ELSE LET prediction == Estimate(best_model, processed_features.rows[1])
                      feature_importance == GetFeatureImportance(best_model, tf.names)
                      confidence_score ==
                          CalculateConfidenceScore(ImportanceValues(feature_importance), NoMetrics)
                  IN  IF ~ResponseValid(confidence_score, model_version, nanPasses)
                      THEN Raised("predict_price", "validation")
                      ELSE [kind |-> "prediction",
                            op |-> "predict_price",
                            predicted_price |-> prediction,
                            price_range |-> PriceRange(prediction, confidence_score),
                            confidence_score |-> confidence_score,
                            model_version |-> model_version,
                            feature_importance |-> feature_importance,
                            explanation |->
                                GenerateDetailedExplanation(FeatureValues(rec),
                                    feature_importance, confidence_score),
                            processed_features |-> processed_features,
                            tf_run |-> tf.run,
                            model_run |-> best_model.run,
                            model_name |-> best_model.name]

\* predict_price without the guard of lines 54-55.
PredictPrice_NoInitGuard(rec, nanPasses) ==
    IF best_model = NoModel THEN Raised("predict_price", "no_model")
    ELSE Predicted(rec, nanPasses)

\* MLServices.predict_price(request) on the current singletons.
PredictPrice(rec, nanPasses) ==
    IF ~is_initialized THEN Raised("predict_price", "not_initialized")
    ELSE IF best_model = NoModel THEN Raised("predict_price", "no_model")
    ELSE Predicted(rec, nanPasses)

\* what_if_analysis lines 130-135: copy of the base record with the scenario applied.
\* hasattr is true for fields and for other attributes of the record object; setattr
\* on a name that is no field raises.
RECURSIVE ApplyScenario(_, _)
ApplyScenario(rec, scenario) ==
    IF scenario = <<>> THEN [ok |-> TRUE, rec |-> rec]
    ELSE LET key == Head(scenario)[1]
             value == Head(scenario)[2]
         IN  IF key \in Fields
             THEN ApplyScenario([rec EXCEPT ![key] = value], Tail(scenario))
             ELSE IF key \in Attributes THEN [ok |-> FALSE, rec |-> rec]
             ELSE ApplyScenario(rec, Tail(scenario))

ScenarioPrediction(rec, scenario, nanPasses) ==
    LET a == ApplyScenario(rec, scenario)
    IN  IF a.ok THEN PredictPrice(a.rec, nanPasses)
        ELSE Raised("what_if_analysis", "setattr")

\* The scenario loop applying each scenario to the record the previous one left
\* (no fresh copy per scenario).
RECURSIVE CarriedOver(_, _, _)
CarriedOver(rec, scenarios, nanPasses) ==
    IF scenarios = <<>> THEN <<>>
    ELSE LET a == ApplyScenario(rec, Head(scenarios))
         IN  <<ScenarioPrediction(rec, Head(scenarios), nanPasses)>>
                 \o CarriedOver(a.rec, Tail(scenarios), nanPasses)

ScenarioPredictions_CarryOver(rec, scenarios, nanPasses) ==
    CarriedOver(rec, scenarios, nanPasses)

\* what_if_analysis lines 126-139: one prediction per scenario, in request order, each
\* on a fresh copy of the base record.
ScenarioPredictions(rec, scenarios, nanPasses) ==
    [i \in 1..Len(scenarios) |-> ScenarioPrediction(rec, scenarios[i], nanPasses)]

\* The comparison listing the scenarios last to first.
ComparisonAnalysis_Reversed(base_price, scenarios, scenario_predictions) ==
    LET n == Len(scenarios)
        price_change(i) == scenario_predictions[i].predicted_price - base_price
    IN  [base_price |-> base_price,
         scenario_changes |-> [i \in 1..n |-> scenarios[n + 1 - i]],
         price_impact |-> [i \in 1..n |-> price_change(i)],
         percentage_changes |->
             [i \in 1..n |-> [num |-> price_change(i) * 100, den |-> base_price]]]

\* what_if_analysis lines 141-159: the comparison over zip(scenarios, predictions).
\* percentage_changes are kept as the fraction price_change * 100 / base_price.
ComparisonAnalysis(base_price, scenarios, scenario_predictions) ==
    LET n == IF Len(scenarios) < Len(scenario_predictions)
             THEN Len(scenarios) ELSE Len(scenario_predictions)
        price_change(i) == scenario_predictions[i].predicted_price - base_price
    IN  [base_price |-> base_price,
         scenario_changes |-> [i \in 1..n |-> scenarios[i]],
         price_impact |-> [i \in 1..n |-> price_change(i)],
         percentage_changes |->
             [i \in 1..n |-> [num |-> price_change(i) * 100, den |-> base_price]]]

\* MLServices.what_if_analysis(request) on the current singletons.
WhatIfAnalysis(rec, scenarios, nanPasses) ==
    IF ~is_initialized THEN Raised("what_if_analysis", "not_initialized")
    ELSE LET base_prediction == PredictPrice(rec, nanPasses)
             scenario_predictions == ScenarioPredictions(rec, scenarios, nanPasses)
             n == Len(scenario_predictions)
         IN  IF base_prediction.kind = "error"
             THEN [base_prediction EXCEPT !.op = "what_if_analysis"]
             ELSE IF \E i \in 1..n : scenario_predictions[i].kind = "error"
             THEN Raised("what_if_analysis",
                         scenario_predictions[CHOOSE i \in 1..n :
                             /\ scenario_predictions[i].kind = "error"
                             /\ \A j \in 1..(i - 1) : scenario_predictions[j].kind # "error"].error)
             ELSE IF n > 0 /\ Len(scenarios) > 0 /\ base_prediction.predicted_price = 0
             THEN Raised("what_if_analysis", "division_by_zero")
             ELSE [kind |-> "what_if",
                   op |-> "what_if_analysis",
                   base_prediction |-> base_prediction,
                   scenario_predictions |-> scenario_predictions,
                   comparison_analysis |->
                       ComparisonAnalysis(base_prediction.predicted_price,
                                          scenarios, scenario_predictions)]

(***************************************************************************)
(* ModelTrainer._select_best_model on the current score table.             *)
(***************************************************************************)
Qualifies(s) == s.test_r2 >= MinR2Threshold /\ s.test_rmse <= MinRmseThreshold

\* First loop: st.has is FALSE while best_score is still float('inf').
RECURSIVE SelectByRmse(_, _, _, _)
SelectByRmse(i, mods, ms, st) ==
    IF i > Len(Names) THEN st
    ELSE LET name == Names[i]
             s == ms[name]
         IN  IF s.run # 0 /\ Qualifies(s) /\ (~st.has \/ s.test_rmse < st.score)
             THEN SelectByRmse(i + 1, mods, ms,
                      [has |-> TRUE, score |-> s.test_rmse, model |-> mods[name], name |-> name])
             ELSE SelectByRmse(i + 1, mods, ms, st)

\* Second loop: best_r2 starts at -1.
RECURSIVE SelectByR2(_, _, _, _)
SelectByR2(i, mods, ms, st) ==
    IF i > Len(Names) THEN st
    ELSE LET name == Names[i]
             s == ms[name]
         IN  IF s.run # 0 /\ s.test_r2 > st.score
             THEN SelectByR2(i + 1, mods, ms,
                      [has |-> TRUE, score |-> s.test_r2, model |-> mods[name], name |-> name])
             ELSE SelectByR2(i + 1, mods, ms, st)

\* The (best_model, best_model_name) the call leaves, given those it finds.
SelectBestModel(mods, ms, bm, bmn) ==
    LET first == SelectByRmse(1, mods, ms, [has |-> FALSE, score |-> 0, model |-> bm, name |-> bmn])
    IN  IF first.model = NoModel
        THEN SelectByR2(1, mods, ms, [has |-> FALSE, score |-> FallbackR2Start, model |-> first.model, name |-> first.name])
        ELSE first

(***************************************************************************)
(* Requests.  The endpoints are coroutines without a suspension point      *)
(* between their first and last statement, so on the server's event loop a *)
(* handler that has started runs to its end before another one starts.     *)
(* Callers that reach the singletons from several threads interleave at    *)
(* the statements below.                                                   *)
(***************************************************************************)
Turn(c) == sched = "threads" \/ holder \in {0, c}

Hold(c, finished) == IF sched = "threads" \/ finished THEN 0 ELSE c

Training == {"gen", "fit", "cand", "select", "save", "commit"}

Endpoints == {"POST /predictions"}

MayTrain(kind) ==
    \/ kind \in {"retrain_model", "train_models"}
    \/ (kind \in Endpoints \cup {"initialize"} /\ ~is_initialized)

InTraining == {c \in Clients : pc[c] \in Training \cup {"ep_check", "init_check"}}

Unfitted == {c \in Clients : pc[c] \in {"ep_check", "init_check", "gen", "fit"}}

FirstStep(kind) ==
    IF kind \in {"retrain_model", "train_models"} THEN "gen"
    ELSE IF kind \in {"predict_price", "what_if_analysis"} THEN "serve"
    ELSE IF kind = "initialize" THEN "init_check"
    ELSE "ep_check"

InInitialize(c) == req[c] \in Endpoints

\* A client issues a call; it is pending until its first statement runs.
Arrive(c) ==
    /\ pc[c] = "idle"
    /\ \E kind \in Kinds :
            /\ MayTrain(kind) => runs + Cardinality(Unfitted) < MaxRuns
            /\ (MayTrain(kind) /\ sched = "threads") => Cardinality(InTraining) < MaxConcurrentTrainings
            /\ req' = [req EXCEPT ![c] = kind]
            /\ pc' = [pc EXCEPT ![c] = FirstStep(kind)]
    /\ resp' = NoResp
    /\ UNCHANGED <<sched, holder, today, runs, tf, trainer, service, loc, summary>>

\* predictions.py:21 / :46  `if not ml_service.is_initialized:`
EpCheck(c) ==
    /\ pc[c] = "ep_check"
    /\ Turn(c)
    /\ pc' = [pc EXCEPT ![c] = IF is_initialized THEN "serve" ELSE "init_check"]
    /\ holder' = Hold(c, FALSE)
    /\ resp' = NoResp
    /\ UNCHANGED <<sched, today, runs, tf, trainer, service, req, loc, summary>>

\* What initialize returns to a direct caller; run is the fit the call made (0: none).
Initialized(c, result, run) ==
    [kind |-> "initialize", client |-> c, result |-> result, run |-> run]

\* initialize without the test of line 27.
InitCheck_NoEarlyReturn(c) ==
    /\ pc[c] = "init_check"
    /\ Turn(c)
    /\ pc' = [pc EXCEPT ![c] = "gen"]
    /\ holder' = Hold(c, FALSE)
    /\ resp' = NoResp
    /\ UNCHANGED <<sched, today, runs, tf, trainer, service, req, loc, summary>>

\* ml_service.py:27  initialize: `if self.is_initialized: return True`; the endpoint
\* then goes on to its service call, a direct caller has True.
InitCheck(c) ==
    /\ pc[c] = "init_check"
    /\ Turn(c)
    /\ IF is_initialized /\ ~InInitialize(c)
       THEN /\ pc' = [pc EXCEPT ![c] = "idle"]
            /\ req' = [req EXCEPT ![c] = NoReq]
            /\ holder' = Hold(c, TRUE)
            /\ resp' = Initialized(c, TRUE, 0)
       ELSE /\ pc' = [pc EXCEPT ![c] = IF is_initialized THEN "serve" ELSE "gen"]
            /\ req' = req
            /\ holder' = Hold(c, FALSE)
            /\ resp' = NoResp
    /\ UNCHANGED <<sched, today, runs, tf, trainer, service, loc, summary>>

\* The data frame: generate_synthetic_data(2000 / 2500) returns it (initialize:34,
\* retrain_model:215), or the caller of train_models passes one of its own.
Generate(c) ==
    /\ pc[c] = "gen"
    /\ Turn(c)
    /\ \E ds \in Datasets, n \in DataSizes \cup {0} :
          /\ req[c] # "train_models" => ds = "synthetic"
          /\ req[c] = "retrain_model" <=> n \in DataSizes
          /\ loc' = [loc EXCEPT ![c] =
                       [i |-> 0, run |-> 0, date |-> 0, ds |-> ds,
                        rows |-> IF req[c] = "retrain_model" THEN RetrainSamples
                                 ELSE IF req[c] = "train_models" THEN TestSamples
                                 ELSE InitializeSamples,
                        data_size |-> n]]
    /\ pc' = [pc EXCEPT ![c] = "fit"]
    /\ holder' = Hold(c, FALSE)
    /\ resp' = NoResp
    /\ UNCHANGED <<sched, today, runs, tf, trainer, service, req, summary>>

\* train_models:36  feature_pipeline.fit_transform(X) refits the pipeline's preprocessor.
FitTransform(c) ==
    /\ pc[c] = "fit"
    /\ Turn(c)
    /\ runs < MaxRuns
    /\ runs' = runs + 1
    /\ \E center \in Centers :
          tf' = [run |-> runs + 1, center |-> center,
                 categories |-> CategoriesIn(loc[c].ds),
                 names |-> GetFeatureNames(CategoriesIn(loc[c].ds))]
    /\ loc' = [loc EXCEPT ![c].i = 1, ![c].run = runs + 1]
    /\ pc' = [pc EXCEPT ![c] = "cand"]
    /\ holder' = Hold(c, FALSE)
    /\ resp' = NoResp
    /\ UNCHANGED <<sched, today, trainer, service, req, summary>>

\* train_models:55-80  one iteration: fit the candidate, score it, store both.
TrainCandidate(c) ==
    /\ pc[c] = "cand"
    /\ Turn(c)
    /\ LET name == Names[loc[c].i]
           o == FitResult(loc[c].ds, name)
       IN  /\ models' = [models EXCEPT ![name] =
                  [run |-> loc[c].run, name |-> name, bias |-> o.bias, coef |-> o.coef, imp |-> o.imp]]
           /\ model_scores' = [model_scores EXCEPT ![name] =
                  [run |-> loc[c].run, test_r2 |-> o.test_r2, test_rmse |-> o.test_rmse]]
    /\ IF loc[c].i < Len(Names)
       THEN /\ loc' = [loc EXCEPT ![c].i = @ + 1]
            /\ pc' = pc
       ELSE /\ loc' = loc
            /\ pc' = [pc EXCEPT ![c] = "select"]
    /\ holder' = Hold(c, FALSE)
    /\ resp' = NoResp
    /\ UNCHANGED <<sched, today, runs, tf, best_model, best_model_name, service, req, summary>>

\* train_models:86  self._select_best_model()
Select(c) ==
    /\ pc[c] = "select"
    /\ Turn(c)
    /\ LET sel == SelectBestModel(models, model_scores, best_model, best_model_name)
       IN  /\ best_model' = sel.model
           /\ best_model_name' = sel.name
    /\ pc' = [pc EXCEPT ![c] = "save"]
    /\ holder' = Hold(c, FALSE)
    /\ resp' = NoResp
    /\ UNCHANGED <<sched, today, runs, tf, models, model_scores, service, req, loc, summary>>

\* train_models:89-100  _save_models() succeeds and the summary is built and returned;
\* its 'model_scores' entry is the trainer's dict object itself, its training_date is
\* datetime.now(), which is the date last read or a later one.  A direct caller of
\* train_models has the summary as its result.
SaveAndReturn(c) ==
    /\ pc[c] = "save"
    /\ Turn(c)
    /\ \E now \in today..MaxDay :
          /\ today' = now
          /\ summary' = [run |-> loc[c].run, best_model |-> best_model_name,
                         training_date |-> now, dataset_size |-> loc[c].rows]
          /\ IF req[c] = "train_models"
             THEN /\ resp' = [kind |-> "summary", client |-> c, run |-> loc[c].run,
                              best_model |-> best_model_name, training_date |-> now,
                              dataset_size |-> loc[c].rows]
                  /\ pc' = [pc EXCEPT ![c] = "idle"]
                  /\ req' = [req EXCEPT ![c] = NoReq]
                  /\ loc' = [loc EXCEPT ![c] = NoLocals]
                  /\ holder' = Hold(c, TRUE)
             ELSE /\ resp' = NoResp
                  /\ pc' = [pc EXCEPT ![c] = "commit"]
                  /\ req' = req
                  /\ loc' = [loc EXCEPT ![c].date = now]
                  /\ holder' = Hold(c, FALSE)
    /\ UNCHANGED <<sched, runs, tf, trainer, service>>

\* The caller of train_models takes the summary:
\* retrain_model:219-226 sets model_version and returns success;
\* initialize:39-43 sets model_version and is_initialized and returns True (to the
\* endpoint, which goes on to its service call, or to a direct caller).
Commit(c) ==
    /\ pc[c] = "commit"
    /\ Turn(c)
    /\ model_version' = loc[c].date
    /\ IF InInitialize(c)
       THEN /\ is_initialized' = TRUE
            /\ pc' = [pc EXCEPT ![c] = "serve"]
            /\ resp' = NoResp
            /\ holder' = Hold(c, FALSE)
            /\ req' = req
            /\ loc' = loc
       ELSE IF req[c] = "initialize"
       THEN /\ is_initialized' = TRUE
            /\ pc' = [pc EXCEPT ![c] = "idle"]
            /\ resp' = Initialized(c, TRUE, loc[c].run)
            /\ holder' = Hold(c, TRUE)
            /\ req' = [req EXCEPT ![c] = NoReq]
            /\ loc' = [loc EXCEPT ![c] = NoLocals]
       ELSE /\ is_initialized' = is_initialized
            /\ pc' = [pc EXCEPT ![c] = "idle"]
            /\ resp' = [kind |-> "retrain", client |-> c, success |-> TRUE,
                        data_size |-> loc[c].data_size,
                        new_model_version |-> loc[c].date,
                        training_summary |-> [run |-> loc[c].run, dataset_size |-> loc[c].rows]]
            /\ holder' = Hold(c, TRUE)
            /\ req' = [req EXCEPT ![c] = NoReq]
            /\ loc' = [loc EXCEPT ![c] = NoLocals]
    /\ UNCHANGED <<sched, today, runs, tf, trainer, summary>>

\* retrain_model without its except clause: the exception reaches the caller.
TrainingRaises_Propagates(c) ==
    /\ pc[c] \in {"gen", "fit", "cand", "save"}
    /\ req[c] = "train_models" => pc[c] # "gen"
    /\ Turn(c)
    /\ resp' = IF InInitialize(c)
               THEN [kind |-> "http_error", client |-> c, status |-> 503, at |-> pc[c]]
               ELSE IF req[c] = "initialize" THEN Initialized(c, FALSE, loc[c].run)
               ELSE [kind |-> "error", client |-> c, op |-> req[c], error |-> pc[c]]
    /\ pc' = [pc EXCEPT ![c] = "idle"]
    /\ req' = [req EXCEPT ![c] = NoReq]
    /\ loc' = [loc EXCEPT ![c] = NoLocals]
    /\ holder' = Hold(c, TRUE)
    /\ UNCHANGED <<sched, today, runs, tf, trainer, service, summary>>

\* An exception in generate_synthetic_data, fit_transform, a candidate's fit or
\* _save_models: train_models logs and re-raises; retrain_model:228-230 returns the
\* failure dict; initialize:45-47 returns False and the endpoint answers 503.
TrainingRaises(c) ==
    /\ pc[c] \in {"gen", "fit", "cand", "save"}
    /\ req[c] = "train_models" => pc[c] # "gen"
    /\ Turn(c)
    /\ resp' = IF InInitialize(c)
               THEN [kind |-> "http_error", client |-> c, status |-> 503, at |-> pc[c]]
               ELSE IF req[c] = "initialize" THEN Initialized(c, FALSE, loc[c].run)
               ELSE IF req[c] = "train_models"
               THEN [kind |-> "error", client |-> c, op |-> "train_models", error |-> pc[c]]
               ELSE [kind |-> "retrain", client |-> c, success |-> FALSE, error |-> pc[c]]
    /\ pc' = [pc EXCEPT ![c] = "idle"]
    /\ req' = [req EXCEPT ![c] = NoReq]
    /\ loc' = [loc EXCEPT ![c] = NoLocals]
    /\ holder' = Hold(c, TRUE)
    /\ UNCHANGED <<sched, today, runs, tf, trainer, service, summary>>

\* How the build compares nan with ge=0 / le=1 matters only for a nan confidence.
NaNConfidence ==
    /\ best_model # NoModel
    /\ IsNaN(CalculateConfidenceScore(
                 ImportanceValues(GetFeatureImportance(best_model, tf.names)), NoMetrics))

\* What the service call of a request gives on the current singletons.
ServiceCall(kind, rec, scenarios, nanPasses) ==
    IF kind \in {"predict_price", "POST /predictions"}
    THEN PredictPrice(rec, nanPasses)
    ELSE WhatIfAnalysis(rec, scenarios, nanPasses)

\* ml_service.predict_price / what_if_analysis runs; an endpoint turns an exception
\* into HTTP 500 (predictions.py:34-36, 59-61).
Serve(c) ==
    /\ pc[c] = "serve"
    /\ Turn(c)
    /\ \E rec \in Records, scenarios \in ScenarioLists, nanPasses \in BOOLEAN :
          /\ req[c] \in {"predict_price", "POST /predictions"} => scenarios = <<>>
          /\ ~NaNConfidence => nanPasses
          /\ LET r == ServiceCall(req[c], rec, scenarios, nanPasses)
             IN  resp' = IF r.kind = "error" /\ InInitialize(c)
                         THEN [kind |-> "http_error", client |-> c, status |-> 500, at |-> r.error]
                         ELSE [client |-> c, request |-> rec, scenarios |-> scenarios] @@ r
    /\ pc' = [pc EXCEPT ![c] = "idle"]
    /\ req' = [req EXCEPT ![c] = NoReq]
    /\ loc' = [loc EXCEPT ![c] = NoLocals]
    /\ holder' = Hold(c, TRUE)
    /\ UNCHANGED <<sched, today, runs, tf, trainer, service, summary>>

\* A direct call of ModelExplainer.generate_detailed_explanation on an explainer of
\* the caller's own: it reads and writes none of the singletons, so it is taken
\* only while no other call is under way.
Explain(c) ==
    /\ \A d \in Clients : pc[d] = "idle"
    /\ Turn(c)
    /\ \E call \in ExplainCalls :
          resp' = [kind |-> "explanation", client |-> c,
                   feature_values |-> call.feature_values,
                   feature_importance |-> SampleImportance,
                   confidence_score |-> call.confidence_score,
                   explanation |->
                       GenerateDetailedExplanation(call.feature_values, SampleImportance,
                                                   call.confidence_score)]
    /\ UNCHANGED <<sched, holder, today, runs, tf, trainer, service, pc, req, loc, summary>>

\* A direct call of feature_pipeline.transform(df) on a one-row frame, as the
\* pipeline test makes it; it writes none of the singletons.
TransformCall(c) ==
    /\ \A d \in Clients : pc[d] = "idle"
    /\ Turn(c)
    /\ \E rec \in Records :
          resp' = [client |-> c, frame |-> <<rec>>] @@ PipelineTransform(tf, <<rec>>)
    /\ UNCHANGED <<sched, holder, today, runs, tf, trainer, service, pc, req, loc, summary>>

\* A direct call of feature_pipeline.generate_synthetic_data(n_samples), as the data
\* test makes it; it writes none of the singletons.
GenerateCall(c) ==
    /\ \A d \in Clients : pc[d] = "idle"
    /\ Turn(c)
    /\ \E n_samples \in SampleCounts :
          \E draws \in [1..n_samples -> Draws] :
              resp' = [kind |-> "data", client |-> c, n_samples |-> n_samples,
                       rows |-> GenerateSyntheticData(n_samples, draws)]
    /\ UNCHANGED <<sched, holder, today, runs, tf, trainer, service, pc, req, loc, summary>>

InitCommon ==
    /\ holder = 0
    /\ today = 1
    /\ runs = 0
    /\ tf = NoTransform
    /\ models = [n \in NameSet |-> NoModel]
    /\ model_scores = [n \in NameSet |-> NoScores]
    /\ best_model = NoModel
    /\ best_model_name = "None"
    /\ is_initialized = FALSE
    /\ model_version = 0
    /\ pc = [c \in Clients |-> "idle"]
    /\ req = [c \in Clients |-> NoReq]
    /\ loc = [c \in Clients |-> NoLocals]
    /\ resp = NoResp
    /\ summary = NoSummary

Init == sched = "event_loop" /\ InitCommon

InitThreads == sched = "threads" /\ InitCommon

Next ==
    \/ \E c \in Clients :
          \/ Arrive(c)
          \/ EpCheck(c)
          \/ InitCheck(c)
          \/ Generate(c)
          \/ FitTransform(c)
          \/ TrainCandidate(c)
          \/ Select(c)
          \/ SaveAndReturn(c)
          \/ Commit(c)
          \/ TrainingRaises(c)
          \/ Serve(c)
          \/ Explain(c)
          \/ TransformCall(c)
          \/ GenerateCall(c)

Spec == Init /\ [][Next]_vars

SpecThreads == InitThreads /\ [][Next]_vars

(***************************************************************************)
(* Properties.                                                             *)
(***************************************************************************)
RetrainInProgress(c) == req[c] = "retrain_model" /\ pc[c] \in {"fit", "cand", "select", "save", "commit"}

\* C1: a prediction that runs while a retraining is in progress computes its result
\* from one training bundle: the fitted transform it applies and the best model it
\* evaluates come from the same training run.
C1_PredictionFromOneBundle ==
    (resp.kind = "prediction" /\ \E d \in Clients : RetrainInProgress(d))
        => resp.tf_run = resp.model_run

TrainedIn(run) == {n \in NameSet : models[n].run = run}

QualifyingIn(run) == {n \in TrainedIn(run) : Qualifies(model_scores[n])}

\* The selection policy as stated: least test_rmse among the qualifying candidates of
\* the run, else greatest test_r2 among all candidates of the run.
MeetsPolicy(run, n) ==
    IF QualifyingIn(run) # {}
    THEN /\ n \in QualifyingIn(run)
         /\ \A m \in QualifyingIn(run) : model_scores[n].test_rmse <= model_scores[m].test_rmse
    ELSE /\ n \in TrainedIn(run)
         /\ \A m \in TrainedIn(run) : model_scores[n].test_r2 >= model_scores[m].test_r2

\* C2: after the selection of every train_models run that leaves a best model, that
\* best model is a candidate of the run just trained and is the one the selection
\* policy names among the candidates of that run.
C2_BestChosenFromThisRun ==
    \A c \in Clients :
        (pc[c] = "save" /\ best_model # NoModel) =>
            /\ best_model_name \in NameSet
            /\ best_model = models[best_model_name]
            /\ best_model.run = loc[c].run
            /\ MeetsPolicy(loc[c].run, best_model_name)

\* C3: predict_price and what_if_analysis called while the service is not initialized
\* or has no best model raise, start no training and leave the singletons unchanged.
C3_PreconditionError ==
    [][\A c \in Clients :
          (pc[c] = "serve" /\ pc'[c] = "idle" /\ (~is_initialized \/ best_model = NoModel))
              => /\ resp'.kind \in {"error", "http_error"}
                 /\ resp'.client = c
                 /\ UNCHANGED <<runs, tf, trainer, service, summary>>
                 /\ \A d \in Clients \ {c} : pc'[d] = pc[d]]_vars

C3_Witness ==
    /\ resp.kind = "error"
    /\ resp.op = "what_if_analysis"
    /\ resp.error = "not_initialized"
    /\ best_model # NoModel

ActiveConfidence ==
    CalculateConfidenceScore(
        ImportanceValues(GetFeatureImportance(best_model, tf.names)), NoMetrics)

\* C4: the confidence score predict_price computes for the active model is a number
\* in [0, 1].
C4_ConfidenceInUnitInterval ==
    (is_initialized /\ best_model # NoModel)
        => (~IsNaN(ActiveConfidence) /\ ActiveConfidence >= 0 /\ ActiveConfidence <= 1000)

\* C5: in every returned prediction with a confidence in [0, 1] the price range
\* encloses the predicted price and its lower bound is strictly below its upper bound.
C5_RangeEnclosesPrice ==
    (resp.kind = "prediction" /\ resp.confidence_score \in 0..1000)
        => /\ resp.price_range[1] <= resp.predicted_price * 10000
           /\ resp.predicted_price * 10000 <= resp.price_range[2]
           /\ resp.price_range[1] < resp.price_range[2]

\* C6: when model_scores holds the test R2 of the active best model, the confidence
\* a prediction returns is the blend (base_confidence + r2) / 2.
C6_ConfidenceBlendsR2 ==
    (/\ resp.kind = "prediction"
     /\ ~IsNaN(resp.confidence_score)
     /\ model_scores[resp.model_name].run # 0)
        => resp.confidence_score =
               CalculateConfidenceScore(
                   ImportanceValues(resp.feature_importance),
                   [has_r2 |-> TRUE, r2 |-> model_scores[resp.model_name].test_r2])

\* C7: while a retraining is in progress on the server, a prediction call that has
\* arrived can run without waiting for the retraining to finish.
C7_PredictionNotBlocked ==
    \A c, d \in Clients :
        (RetrainInProgress(c) /\ d # c /\ req[d] = "predict_price" /\ pc[d] = "serve")
            => ENABLED Serve(d)

\* C8: once a training run has returned its summary, a later training run changes
\* neither the score table that summary holds nor the fitted transform.
C8_PublishedBundleKept ==
    [][summary.run # 0 => (model_scores' = model_scores /\ tf' = tf)]_vars

\* C9: when training fails inside retrain_model the call returns a result with
\* success = False and an error, and no version label.
C9_RetrainFailureIsAResult ==
    [][\A c \in Clients :
          (req[c] = "retrain_model" /\ pc[c] \in {"gen", "fit", "cand", "select", "save"} /\ pc'[c] = "idle")
              => /\ resp'.kind = "retrain"
                 /\ resp'.client = c
                 /\ resp'.success = FALSE
                 /\ "error" \in DOMAIN resp'
                 /\ "new_model_version" \notin DOMAIN resp'
                 /\ model_version' = model_version]_vars

C9_Witness ==
    /\ resp.kind = "retrain"
    /\ resp.success = FALSE
    /\ resp.error = "save"
    /\ best_model # NoModel

\* C10: when train_models has returned normally, best_model is set and the summary's
\* best_model names a candidate trained in that call.
C10_BestModelSetAfterTraining ==
    ((\E c \in Clients : pc[c] = "commit") \/ resp.kind = "summary")
        => /\ best_model # NoModel
           /\ summary.best_model \in TrainedIn(summary.run)

\* C11: what_if_analysis does not raise on a scenario key that is not a field of
\* the record, whatever the key's name; the key is ignored.
C11_NonFieldKeyIgnored ==
    ~(resp.kind = "error" /\ resp.op = "what_if_analysis" /\ resp.error = "setattr")

\* C12: what_if_analysis does not fail on a base prediction of exactly 0: the
\* division by the base price is guarded.
C12_ZeroBasePriceGuarded ==
    ~(resp.kind = "error" /\ resp.op = "what_if_analysis" /\ resp.error = "division_by_zero")

\* The record a scenario asks for: the base record with the fields the scenario
\* names set to the scenario's (last) value for them, every other field as in the base.
RECURSIVE Overridden(_, _)
Overridden(rec, scenario) ==
    IF scenario = <<>> THEN rec
    ELSE LET key == Head(scenario)[1]
         IN  Overridden(IF key \in DOMAIN rec THEN [rec EXCEPT ![key] = Head(scenario)[2]] ELSE rec,
                        Tail(scenario))

PriceOf(rec) == Estimate(best_model, TransformRow(tf, rec))

\* C13: a what-if result has one scenario prediction per input scenario, and the
\* i-th prediction and the i-th entries of scenario_changes, price_impact and
\* percentage_changes all belong to the i-th input scenario.
C13_WhatIfOrderAndLength ==
    resp.kind = "what_if" =>
        LET n == Len(resp.scenarios)
            ca == resp.comparison_analysis
            base == resp.base_prediction.predicted_price
        IN  /\ Len(resp.scenario_predictions) = n
            /\ Len(ca.scenario_changes) = n
            /\ Len(ca.price_impact) = n
            /\ Len(ca.percentage_changes) = n
            /\ \A i \in 1..n :
                  /\ resp.scenario_predictions[i].predicted_price =
                         PriceOf(Overridden(resp.request, resp.scenarios[i]))
                  /\ ca.scenario_changes[i] = resp.scenarios[i]
                  /\ ca.price_impact[i] = PriceOf(Overridden(resp.request, resp.scenarios[i])) - base
                  /\ ca.percentage_changes[i] =
                         [num |-> ca.price_impact[i] * 100, den |-> base]

C13_Witness ==
    /\ resp.kind = "what_if"
    /\ Len(resp.scenarios) = 4
    /\ resp.scenarios[1] = resp.scenarios[4]
    /\ resp.scenarios[2] # resp.scenarios[3]
    /\ resp.scenario_predictions[1].predicted_price # resp.scenario_predictions[2].predicted_price

\* C14: each scenario prediction of a what-if result is made on the base record
\* changed in the fields that scenario names and in no other, the base prediction is
\* made on the unchanged base record, and an empty scenario gives the base price.
C14_ScenarioFrame ==
    resp.kind = "what_if" =>
        /\ resp.base_prediction.processed_features.rows = <<TransformRow(tf, resp.request)>>
        /\ \A i \in 1..Len(resp.scenarios) :
              /\ resp.scenario_predictions[i].processed_features.rows =
                     <<TransformRow(tf, Overridden(resp.request, resp.scenarios[i]))>>
              /\ resp.scenarios[i] = <<>> =>
                     resp.scenario_predictions[i].predicted_price =
                         resp.base_prediction.predicted_price

C14_Witness ==
    /\ resp.kind = "what_if"
    /\ Len(resp.scenarios) = 4
    /\ resp.scenarios[3] = <<>>
    /\ resp.scenario_predictions[2].predicted_price # resp.base_prediction.predicted_price
    /\ resp.scenario_predictions[3].predicted_price = resp.base_prediction.predicted_price

\* C15: every fit of the feature pipeline yields the same feature_names as the fit
\* before it, whatever the training records.
C15_FeatureNamesFixed ==
    [][(tf.run # 0 /\ tf'.run # 0) => tf'.names = tf.names]_vars

\* C16: the fitted pipeline's output has one row per input record and one column per
\* feature name, and its columns are feature_names: the configured numerical
\* features first, then the one-hot columns.
C16_OutputMatchesFeatureNames ==
    /\ tf.run # 0 =>
          /\ Len(tf.names) = Len(TransformRow(tf, CHOOSE r \in Records : TRUE))
          /\ SubSeq(tf.names, 1, Len(NumericalFeatures)) = NumericalFeatures
          /\ \A i \in (Len(NumericalFeatures) + 1)..Len(tf.names) :
                tf.names[i] \in {OneHotName(PropertyTypes[k]) : k \in 1..Len(PropertyTypes)}
    /\ resp.kind = "prediction" =>
          /\ Len(resp.processed_features.rows) = 1
          /\ Len(resp.processed_features.rows[1]) = Len(resp.processed_features.columns)
          /\ resp.processed_features.columns = tf.names

C16_Witness ==
    /\ resp.kind = "prediction"
    /\ tf.run = 2
    /\ Len(resp.processed_features.columns) = Len(NumericalFeatures)
    /\ Len(resp.processed_features.rows[1]) = Len(NumericalFeatures)

\* C17: a successful retraining trained on as many records as its request asked
\* for: dataset_size in the returned summary equals data_size.
C17_TrainsOnRequestedSize ==
    (resp.kind = "retrain" /\ resp.success)
        => resp.training_summary.dataset_size = resp.data_size

\* C18: generate_detailed_explanation returns the normal explanation, with a
\* statement for each of the top 5 features, also when a raw value is missing.
C18_MissingValueHasPlaceholder ==
    resp.kind = "explanation" =>
        /\ resp.explanation.kind = "detailed"
        /\ Len(resp.explanation.statements) =
               (IF Len(resp.feature_importance) < 5 THEN Len(resp.feature_importance) ELSE 5)

\* C19: the confidence label of an explanation is Low below 0.4, Medium from 0.4 to
\* 0.7 inclusive, High above 0.7.
C19_ConfidenceLabelBoundaries ==
    (/\ resp.kind \in {"explanation", "prediction"}
     /\ resp.explanation.kind = "detailed"
     /\ resp.confidence_score \in 0..1000)
        => LET c == resp.confidence_score
               label == resp.explanation.confidence_label
           IN  /\ label = "Low" <=> c < 400
               /\ label = "Medium" <=> (400 <= c /\ c <= 700)
               /\ label = "High" <=> c > 700

C19_Witness ==
    /\ resp.kind = "explanation"
    /\ resp.confidence_score = 700
    /\ resp.explanation.confidence_label = "Medium"

Abs(x) == IF x < 0 THEN -x ELSE x

\* C20: for a confidence in [0, 1] the price range is [p - p*u, p + p*u] with
\* u = (1 - confidence) * 0.10, or [0.95 p, 1.05 p] when those bounds are equal,
\* so its half-width is at most 10% of |p|.
C20_PriceRangeFormula ==
    (resp.kind = "prediction" /\ resp.confidence_score \in 0..1000)
        => LET p == resp.predicted_price
               u == 1000 - resp.confidence_score
               lower == p * 10000 - p * u
               upper == p * 10000 + p * u
           IN  /\ resp.price_range = IF lower = upper THEN <<p * 9500, p * 10500>>
                                     ELSE <<lower, upper>>
               /\ Abs(resp.price_range[2] - resp.price_range[1]) <= 2 * 1000 * Abs(p)

C20_Witness ==
    /\ resp.kind = "prediction"
    /\ resp.confidence_score = 1000
    /\ resp.predicted_price > 0
    /\ resp.price_range = <<resp.predicted_price * 9500, resp.predicted_price * 10500>>


\* The location fields of a record (longitude and zip_code are handled as latitude is).
LocationFields == {"latitude"}
Latitudes == {0, 37}

SameEstimate(a, b) ==
    /\ a.kind = "prediction"
    /\ b.kind = "prediction"
    /\ a.processed_features = b.processed_features
    /\ a.predicted_price = b.predicted_price
    /\ a.price_range = b.price_range
    /\ a.confidence_score = b.confidence_score
    /\ a.feature_importance = b.feature_importance

\* C21: a prediction has the same feature vector, price, price range, confidence and
\* feature importances as the prediction, in the same state, of the record with any
\* other latitude; and a what-if scenario that overrides only location fields has
\* those of the base prediction.
C21_LocationNeverUsed ==
    /\ resp.kind = "prediction" =>
          \A lat \in Latitudes :
              SameEstimate(resp, PredictPrice([resp.request EXCEPT !.latitude = lat], TRUE))
    /\ resp.kind = "what_if" =>
          \A i \in 1..Len(resp.scenarios) :
              (\A k \in 1..Len(resp.scenarios[i]) : resp.scenarios[i][k][1] \in LocationFields)
                  => SameEstimate(resp.scenario_predictions[i], resp.base_prediction)

C21_Witness ==
    /\ resp.kind = "what_if"
    /\ resp.request.latitude = 0
    /\ Len(resp.scenarios) = 2
    /\ resp.scenarios[1] = << <<"latitude", 37>> >>
    /\ resp.scenario_predictions[2].predicted_price # resp.base_prediction.predicted_price


\* C22: transform called while the pipeline has never been fitted raises and returns
\* no feature vector.
C22_UnfittedTransformFails ==
    (resp.kind \in {"features", "error"} /\ resp.op = "transform" /\ tf.run = 0)
        => (resp.kind = "error" /\ "rows" \notin DOMAIN resp)

C22_Witness ==
    /\ resp.kind = "error"
    /\ resp.op = "transform"
    /\ resp.error = "not_fitted"
    /\ tf.run = 0

Seen(category) == \E k \in 1..Len(tf.categories) : tf.categories[k] = category

OneHotPart(row) == SubSeq(row, Len(NumericalFeatures) + 1, Len(row))

\* C23: a record whose property_type did not occur in the data the pipeline was
\* fitted on is transformed without error, its one-hot columns are all 0, and there
\* are k - 1 of them for k categories seen at fit time.
C23_UnseenCategoryAllZero ==
    /\ (resp.kind \in {"features", "error"} /\ resp.op = "transform" /\ tf.run # 0
            /\ ~Seen(resp.frame[1].property_type))
          => /\ resp.kind = "features"
             /\ Len(OneHotPart(resp.rows[1])) = Len(tf.categories) - 1
             /\ \A i \in 1..Len(OneHotPart(resp.rows[1])) : OneHotPart(resp.rows[1])[i] = 0
    /\ (resp.kind = "prediction" /\ ~Seen(resp.request.property_type))
          => LET row == resp.processed_features.rows[1]
             IN  /\ Len(OneHotPart(row)) = Len(tf.categories) - 1
                 /\ \A i \in 1..Len(OneHotPart(row)) : OneHotPart(row)[i] = 0

C23_Witness ==
    /\ resp.kind = "features"
    /\ resp.op = "transform"
    /\ Len(tf.categories) = 2
    /\ resp.frame[1].property_type = "townhouse"
    /\ OneHotPart(resp.rows[1]) = <<0>>


\* C24: generate_synthetic_data(N) returns exactly N rows, each with a price in
\* [50000, 2000000] and an area_sqft in [500, 10000], whatever the draws.
C24_SyntheticDataInRange ==
    resp.kind = "data" =>
        /\ Len(resp.rows) = resp.n_samples
        /\ \A i \in 1..Len(resp.rows) :
              /\ PriceMin <= resp.rows[i].price /\ resp.rows[i].price <= PriceMax
              /\ AreaMin <= resp.rows[i].area_sqft /\ resp.rows[i].area_sqft <= AreaMax

C24_Witness ==
    /\ resp.kind = "data"
    /\ resp.n_samples = 2
    /\ resp.rows[1] = [area_sqft |-> AreaMin, price |-> PriceMin]
    /\ resp.rows[2] = [area_sqft |-> AreaMax, price |-> PriceMax]


\* The candidates of a run that share the deciding score: the least test_rmse among
\* the qualifying ones, or the greatest test_r2 when none qualifies.
Deciding(run) ==
    IF QualifyingIn(run) # {}
    THEN {n \in QualifyingIn(run) :
             \A m \in QualifyingIn(run) : model_scores[n].test_rmse <= model_scores[m].test_rmse}
    ELSE {n \in TrainedIn(run) :
             \A m \in TrainedIn(run) : model_scores[n].test_r2 >= model_scores[m].test_r2}

FirstEvaluated(S) == Names[CHOOSE i \in 1..Len(Names) :
                              Names[i] \in S /\ \A j \in 1..(i - 1) : Names[j] \notin S]

\* C25: when two or more candidates of a run tie on the deciding score, the selection
\* of that run commits the tied candidate that comes first in the iteration order.
C25_TieGoesToFirstEvaluated ==
    \A c \in Clients :
        (pc[c] = "save" /\ Cardinality(Deciding(loc[c].run)) >= 2) =>
            /\ best_model_name = FirstEvaluated(Deciding(loc[c].run))
            /\ best_model = models[FirstEvaluated(Deciding(loc[c].run))]


\* C26: when no training is under way and the most recent fit of the transform
\* belongs to a run that returned normally, a best model that is set is the object
\* stored under models[best_model_name] and was fitted in that run.
C26_BestModelOfLatestRun ==
    (/\ \A c \in Clients : pc[c] \notin Training
     /\ summary.run # 0
     /\ summary.run = tf.run
     /\ best_model # NoModel)
        => /\ best_model_name \in NameSet
           /\ best_model = models[best_model_name]
           /\ best_model.run = tf.run


\* C27: when retrain_model returns success = False, the transform, the candidate
\* models, the score table and the best model are those from before the call: none of
\* them was made by the failed call (loc[c].run is the fit the call made, 0 if none),
\* and model_version is unchanged.
C27_FailedRetrainChangesNothing ==
    [][\A c \in Clients :
          (/\ req[c] = "retrain_model" /\ pc[c] \in Training /\ pc'[c] = "idle"
           /\ resp'.kind = "retrain" /\ ~resp'.success /\ loc[c].run # 0)
              => /\ tf'.run # loc[c].run
                 /\ \A n \in NameSet : models'[n].run # loc[c].run
                 /\ \A n \in NameSet : model_scores'[n].run # loc[c].run
                 /\ best_model'.run # loc[c].run
                 /\ model_version' = model_version]_vars


\* C28: whenever no call is running, is_initialized is true exactly when a best
\* model is set.
C28_InitializedIffBestModel ==
    (\A c \in Clients : pc[c] = "idle") => (is_initialized <=> best_model # NoModel)


\* C29: a call of initialize that finds is_initialized set returns True and leaves
\* the transform, the trainer, model_version and is_initialized as they are, without
\* generating data or training; a call that fails leaves is_initialized false, and a
\* call that finds it false starts the initialization.
C29_InitializeIdempotent ==
    [][\A c \in Clients :
          /\ (pc[c] = "init_check" /\ pc'[c] # "init_check" /\ is_initialized)
                => /\ pc'[c] \in {"idle", "serve"}
                   /\ req[c] = "initialize" => resp' = Initialized(c, TRUE, 0)
                   /\ UNCHANGED <<runs, tf, trainer, service>>
          /\ (pc[c] = "init_check" /\ pc'[c] # "init_check" /\ ~is_initialized)
                => pc'[c] = "gen"
          /\ (req[c] = "initialize" /\ pc'[c] = "idle" /\ ~resp'.result)
                => ~is_initialized']_vars

C29_Witness ==
    /\ resp = Initialized(resp.client, TRUE, 0)
    /\ is_initialized
    /\ best_model # NoModel


\* C30: every record a returned what-if result was predicted on, the base record and
\* each scenario's record, satisfies the constraints of PredictionRequest.
C30_ScenarioRecordsValidated ==
    resp.kind = "what_if" =>
        /\ MeetsConstraints(resp.request)
        /\ \A i \in 1..Len(resp.scenarios) :
              MeetsConstraints(Overridden(resp.request, resp.scenarios[i]))

====
